---- MODULE Spec2Model ----
(***************************************************************************)
(* Model of src/app.py: the Flask handler convert_files (POST /convert).   *)
(* A Python str is a sequence of tokens (single characters for base64      *)
(* text, path tokens for file names, "/" being the separator token).       *)
(* The filesystem is the set of existing directories and a map from the    *)
(* resolved path of every regular file to its bytes.                       *)
(***************************************************************************)
EXTENDS Integers, Sequences, FiniteSets, TLC

VARIABLES pc, payload, loc, response, dirs, files, served, trace

vars == <<pc, payload, loc, response, dirs, files, served, trace>>

(* ------------------------------ bounds -------------------------------- *)
\* longest data list a request carries
MaxData == 2
\* requests the server accepts during one run (also the uuid counter's cap)
MaxRequests == 2
\* handler threads that may be inside convert_files at the same time
NumThreads == 2

Threads == 1..NumThreads

(* ------------------------- base64.b64decode --------------------------- *)
BASE64_PAD == "="

\* binascii's table_a2b_base64 on the characters that occur; 64 and above
\* stands for "not in the alphabet"
table_a2b_base64(c) ==
    CASE c = "A" -> 0
      [] c = "Q" -> 16
      [] c = "g" -> 32
      [] c = "w" -> 48
      [] c = "/" -> 63
      [] OTHER   -> 64

\* one iteration of the decoding loop of binascii.a2b_base64, non-strict
\* mode (validate=False): st = [quad_pos, pads, leftchar, out, done]
a2b_step(st, ch) ==
    IF st.done THEN st
    ELSE IF ch = BASE64_PAD
    THEN IF st.quad_pos >= 2 /\ st.quad_pos + st.pads + 1 >= 4
         THEN [st EXCEPT !.pads = @ + 1, !.done = TRUE]
         ELSE IF st.quad_pos >= 2 THEN [st EXCEPT !.pads = @ + 1] ELSE st
    ELSE LET v == table_a2b_base64(ch) IN
         IF v >= 64 THEN st
         ELSE CASE st.quad_pos = 0 ->
                     [st EXCEPT !.pads = 0, !.quad_pos = 1, !.leftchar = v]
                [] st.quad_pos = 1 ->
                     [st EXCEPT !.pads = 0, !.quad_pos = 2,
                                !.out = Append(@, st.leftchar * 4 + v \div 16),
                                !.leftchar = v % 16]
                [] st.quad_pos = 2 ->
                     [st EXCEPT !.pads = 0, !.quad_pos = 3,
                                !.out = Append(@, st.leftchar * 16 + v \div 4),
                                !.leftchar = v % 4]
                [] OTHER ->
                     [st EXCEPT !.pads = 0, !.quad_pos = 0,
                                !.out = Append(@, st.leftchar * 64 + v),
                                !.leftchar = 0]

RECURSIVE a2b_loop(_, _, _)
a2b_loop(s, k, st) ==
    IF k > Len(s) THEN st ELSE a2b_loop(s, k + 1, a2b_step(st, s[k]))

\* base64.b64decode(s): [ok |-> TRUE, bytes] or [ok |-> FALSE, err] when
\* binascii.Error is raised
b64decode(s) ==
    LET st == a2b_loop(s, 1, [quad_pos |-> 0, pads |-> 0, leftchar |-> 0,
                              out |-> <<>>, done |-> FALSE])
    IN  IF st.done \/ st.quad_pos = 0
        THEN [ok |-> TRUE, bytes |-> st.out]
        ELSE IF st.quad_pos = 1
        THEN [ok |-> FALSE, err |-> "Invalid base64-encoded string"]
        ELSE [ok |-> FALSE, err |-> "Incorrect padding"]

(* ------------------------------ paths --------------------------------- *)
SEP == "/"

\* the module constant MARKITDOWN_TMPDIR with its default value "/tmp/"
MARKITDOWN_TMPDIR == <<SEP, "tmp", SEP>>

\* str(uuid.uuid4()): the n-th identifier drawn; two draws never collide
uuid4(n) == "uuid" \o ToString(n)

\* os.path.join(a, b)
path_join(a, b) ==
    IF b # <<>> /\ b[1] = SEP THEN b
    ELSE IF a = <<>> \/ a[Len(a)] = SEP THEN a \o b
    ELSE a \o <<SEP>> \o b

IsSep(t) == t = SEP
NotSep(t) == t # SEP

\* the components of a path string
Components(p) == SelectSeq(p, NotSep)

Parent(c) == IF c = <<>> THEN <<>> ELSE SubSeq(c, 1, Len(c) - 1)

\* the kernel's path walk: cur is the directory reached so far; every
\* component but the last must name an existing directory.  The result is
\* [ok |-> TRUE, at |-> resolved components] or [ok |-> FALSE].
RECURSIVE Walk(_, _, _, _)
Walk(ds, comps, k, cur) ==
    IF k > Len(comps) THEN [ok |-> TRUE, at |-> cur]
    ELSE IF cur \notin ds THEN [ok |-> FALSE]
    ELSE IF comps[k] = ".." THEN Walk(ds, comps, k + 1, Parent(cur))
    ELSE IF comps[k] = "." THEN Walk(ds, comps, k + 1, cur)
    ELSE Walk(ds, comps, k + 1, Append(cur, comps[k]))

Resolve(ds, p) == Walk(ds, Components(p), 1, <<>>)

IsPrefix(a, b) == Len(a) <= Len(b) /\ SubSeq(b, 1, Len(a)) = a

\* os.path.exists(p)
path_exists(ds, fs, p) ==
    LET w == Resolve(ds, p) IN w.ok /\ (w.at \in ds \/ w.at \in DOMAIN fs)

\* os.makedirs(p, exist_ok=True): the directories after the call
makedirs(ds, p) ==
    LET c == Components(p) IN ds \cup {SubSeq(c, 1, k) : k \in 0..Len(c)}

\* open(p, "wb"): "ok", or the OSError raised
open_wb(ds, p) ==
    LET w == Resolve(ds, p) IN
    IF ~w.ok \/ Parent(w.at) \notin ds
    THEN "[Errno 2] No such file or directory"
    ELSE IF w.at \in ds THEN "[Errno 21] Is a directory"
    ELSE "ok"

\* f.write(file_bytes) on the file opened at p: the files after the call
write_file(ds, fs, p, bytes) ==
    LET at == Resolve(ds, p).at IN
    [q \in DOMAIN fs \cup {at} |-> IF q = at THEN bytes ELSE fs[q]]

\* a finally clause that forgets the removal: the directories stay
rmtree_dirs_keep(ds, p) == ds

\* shutil.rmtree(p, ignore_errors=True): the directories left
rmtree_dirs(ds, p) ==
    LET w == Resolve(ds, p) IN
    IF ~w.ok \/ w.at \notin ds THEN ds
    ELSE {d \in ds : ~IsPrefix(w.at, d)}

\* shutil.rmtree(p, ignore_errors=True): the files left
rmtree_files(ds, fs, p) ==
    LET w == Resolve(ds, p) IN
    IF ~w.ok \/ w.at \notin ds THEN fs
    ELSE [q \in {x \in DOMAIN fs : ~IsPrefix(w.at, x)} |-> fs[q]]

(* --------------------------- Python values ---------------------------- *)
\* the result of dict.get(k): None, or the value found
None == [some |-> FALSE]
Some(v) == [some |-> TRUE, val |-> v]

\* d.get(k), d a dict (a function on the keys it holds)
dict_get(d, k) == IF k \in DOMAIN d THEN Some(d[k]) ELSE None

\* truth value of an optional str or list: None and the empty one are falsy
truthy_seq(o) == o.some /\ o.val # <<>>

\* truth value of an optional dict: None and {} are falsy
truthy_dict(o) == o.some /\ DOMAIN o.val # {}

(* ------------------------ conversion engine --------------------------- *)
\* MarkItDown() / MarkItDown(llm_client=..., llm_model=...): the engine
\* remembers the keyword arguments it was constructed with
MarkItDown(kwargs) == [built |-> TRUE, kwargs |-> kwargs]

\* OpenAI(**client_kwargs): the client remembers its keyword arguments
OpenAI(client_kwargs) == [client |-> client_kwargs]

\* the byte the engine cannot digest
BadByte == 255

\* md.convert(file_path): reads the file at the path; raises when the file
\* is not there or its content cannot be converted, else returns an object
\* whose text_content is determined by the bytes read
md_convert(ds, fs, p) ==
    LET w == Resolve(ds, p) IN
    IF ~w.ok \/ w.at \notin DOMAIN fs
    THEN [ok |-> FALSE, err |-> "File not found"]
    ELSE IF \E k \in 1..Len(fs[w.at]) : fs[w.at][k] = BadByte
    THEN [ok |-> FALSE, err |-> "Could not convert"]
    ELSE [ok |-> TRUE, text_content |-> [markdown |-> fs[w.at]]]

(* --------------------------- request inputs --------------------------- *)
\* file names, as path token sequences
NameA       == <<"a.txt">>
NameB       == <<"b.txt">>
NameUp      == <<"..", SEP, "shared.txt">>
NameAbs     == <<SEP, "tmp", SEP, "abs.txt">>
NameSub     == <<"sub", SEP, "x.txt">>

\* base64 texts, as character sequences
B64_A       == <<"Q", "Q", "=", "=">>        \* decodes to the byte 65
B64_B       == <<"Q", "g", "=", "=">>        \* decodes to the byte 66
B64_Bad     == <<"/", "w", "=", "=">>        \* decodes to the byte 255
B64_NoPad   == <<"Q", "Q", "=">>             \* incorrect padding
B64_Junk    == <<"Q", "!", "Q", "=", "=">>   \* a character outside the alphabet

Items ==
    { [fileName |-> NameA,   fileContent |-> B64_A],
      [fileName |-> NameA,   fileContent |-> B64_B],
      [fileName |-> NameB,   fileContent |-> B64_Bad],
      [fileName |-> NameB,   fileContent |-> B64_NoPad],
      [fileName |-> NameA,   fileContent |-> B64_Junk],
      [fileName |-> NameUp,  fileContent |-> B64_B],
      [fileName |-> NameAbs, fileContent |-> B64_A],
      [fileName |-> NameSub, fileContent |-> B64_A],
      [fileContent |-> B64_A],
      [fileName |-> NameB,   fileContent |-> <<>>] }

\* the items two requests in flight at once are drawn from
SharedItems ==
    { [fileName |-> NameA,   fileContent |-> B64_A],
      [fileName |-> NameB,   fileContent |-> B64_Bad],
      [fileName |-> NameUp,  fileContent |-> B64_A],
      [fileName |-> NameUp,  fileContent |-> B64_B] }

SeqsUpTo(S, n) == UNION {[1..k -> S] : k \in 0..n}

LlmConfigs ==
    { [openaiApiKey |-> "sk-key", llmModel |-> "gpt"],
      [openaiApiKey |-> "sk-key", llmModel |-> "gpt", openaiBaseUrl |-> "http://llm"],
      [openaiApiKey |-> "sk-key"],
      [llmModel |-> "gpt"],
      [openaiApiKey |-> "sk-key", openaiBaseUrl |-> "http://llm"],
      [x \in {} |-> "none"] }

\* JSON values of the "data" key
DataValues(items) ==
    {[type |-> "list", val |-> d] : d \in SeqsUpTo(items, MaxData)}
        \cup {[type |-> "str"], [type |-> "null"]}

\* the items sent along with an llmConfig
LlmItems ==
    { [fileName |-> NameA,   fileContent |-> B64_A],
      [fileName |-> NameB,   fileContent |-> B64_Bad] }

\* JSON objects a request may carry
Objects(items) ==
    {[data |-> d] : d \in DataValues(items)}
        \cup {[llmConfig |-> c, data |-> d] : c \in LlmConfigs, d \in DataValues(LlmItems)}
        \cup {[llmConfig |-> c] : c \in LlmConfigs}
        \cup {[x \in {} |-> "none"]}

\* request bodies: no JSON body at all, a body that does not parse, the
\* JSON documents null and [], and JSON objects
Bodies(items) ==
    {[kind |-> "unparsable"], [kind |-> "absent"], [kind |-> "null"], [kind |-> "array"]}
        \cup {[kind |-> "object", obj |-> o] : o \in Objects(items)}

\* the bodies two requests in flight at once are drawn from
SharedBodies ==
    {[kind |-> "object", obj |-> [data |-> [type |-> "list", val |-> d]]] :
        d \in SeqsUpTo(SharedItems, MaxData) \ {<<>>}}

(* ------------------------------ handler ------------------------------- *)
\* request.get_json(): the outcomes Flask can produce.  A body that does not
\* parse raises BadRequest; without a JSON body the call raises or returns
\* None, depending on the Flask release; otherwise the document is returned.
get_json(body) ==
    IF body.kind = "unparsable"
    THEN {[raised |-> TRUE, err |-> "400 Bad Request"]}
    ELSE IF body.kind = "absent"
    THEN {[raised |-> TRUE, err |-> "415 Unsupported Media Type"],
          [raised |-> FALSE, value |-> [kind |-> "null"]]}
    ELSE {[raised |-> FALSE, value |-> body]}

\* jsonify({"error": e}), 500
jsonify_error(e) == [status |-> 500, error |-> e]

\* jsonify(results), 200
jsonify_results(rs) == [status |-> 200, results |-> rs]

\* an error message without parameters
plain_error(m) == [msg |-> m]

\* f"Failed to decode base64 for {file_name}: {e}"
decode_error(file_name, e) ==
    [msg |-> "Failed to decode base64 for", file |-> file_name, err |-> e]

\* the message with the file path's last token in place of the file name
conversion_error_unnamed(file_name, e) ==
    [msg |-> "Conversion failed for file", file |-> <<"file_path">>, err |-> e]

\* f"Conversion failed for file: {file_name}. Error: {e}"
conversion_error(file_name, e) ==
    [msg |-> "Conversion failed for file", file |-> file_name, err |-> e]

\* payload.get("data", [])
payload_data(obj) ==
    IF "data" \in DOMAIN obj THEN obj.data ELSE [type |-> "list", val |-> <<>>]

\* the check without its emptiness test
valid_data_any_list(data) == data.type = "list"

\* isinstance(data, list) and len(data) != 0
valid_data(data) == data.type = "list" /\ Len(data.val) # 0

\* the check demanding the optional openaiBaseUrl as well
use_llm_strict(llm_config) ==
    /\ truthy_dict(llm_config)
    /\ \A k \in {"openaiApiKey", "llmModel", "openaiBaseUrl"} : k \in DOMAIN llm_config.val

\* llm_config and all(k in llm_config for k in ["openaiApiKey", "llmModel"])
use_llm(llm_config) ==
    /\ truthy_dict(llm_config)
    /\ \A k \in {"openaiApiKey", "llmModel"} : k \in DOMAIN llm_config.val

\* the branch that constructs the engine
make_engine(llm_config) ==
    IF use_llm(llm_config)
    THEN LET c == llm_config.val
             client_kwargs ==
                 IF "openaiBaseUrl" \in DOMAIN c
                 THEN [api_key |-> c.openaiApiKey, base_url |-> c.openaiBaseUrl]
                 ELSE [api_key |-> c.openaiApiKey]
         IN  MarkItDown([llm_client |-> OpenAI(client_kwargs),
                         llm_model |-> c.llmModel])
    ELSE MarkItDown([x \in {} |-> "none"])

\* the check without its fileContent half
entry_invalid_name_only(item) == ~truthy_seq(dict_get(item, "fileName"))

\* not file_name or not file_content_base64
entry_invalid(item) ==
    \/ ~truthy_seq(dict_get(item, "fileName"))
    \/ ~truthy_seq(dict_get(item, "fileContent"))

\* an insertion at the front of the list instead of its end
append_result_front(results, file_name, conversion_output) ==
    <<[fileName |-> file_name, conversionResult |-> conversion_output]>> \o results

\* results.append({"fileName": ..., "conversionResult": ...})
append_result(results, file_name, conversion_output) ==
    Append(results, [fileName |-> file_name, conversionResult |-> conversion_output])

\* the handler's local variables before anything is assigned
NoLocals ==
    [has_wd |-> FALSE, working_dir |-> <<>>, data |-> <<>>,
     md |-> [built |-> FALSE], results |-> <<>>, i |-> 0,
     file_name |-> <<>>, file_path |-> <<>>]

NoResponse == [status |-> 0]

Ev(op, i) == [op |-> op, i |-> i]

\* a return inside the try block (or the except clause): the response is
\* fixed and control passes to the finally clause
Leave(r, resp, l, events) ==
    /\ response' = [response EXCEPT ![r] = resp]
    /\ loc' = [loc EXCEPT ![r] = l]
    /\ pc' = [pc EXCEPT ![r] = "finally"]
    /\ trace' = [trace EXCEPT ![r] = @ \o events]

\* lines 55-91: parse the body, check data, create the working directory,
\* construct the engine
Receive(r, body, parsed, mkdir_ok) ==
    /\ pc[r] = "idle"
    /\ served < MaxRequests
    /\ served' = served + 1
    /\ payload' = [payload EXCEPT ![r] = body]
    /\ IF parsed.raised
       THEN Leave(r, jsonify_error(plain_error(parsed.err)), NoLocals, <<>>)
               /\ UNCHANGED <<dirs, files>>
       ELSE IF parsed.value.kind = "null"
       THEN Leave(r, jsonify_error(plain_error("No JSON payload provided")),
                  NoLocals, <<>>)
               /\ UNCHANGED <<dirs, files>>
       ELSE IF parsed.value.kind # "object"
       THEN Leave(r, jsonify_error(plain_error("'list' object has no attribute 'get'")),
                  NoLocals, <<>>)
               /\ UNCHANGED <<dirs, files>>
       ELSE LET obj == parsed.value.obj
                llm_config == dict_get(obj, "llmConfig")
                data == payload_data(obj)
                working_dir == path_join(MARKITDOWN_TMPDIR, <<uuid4(served)>>)
            IN  IF ~valid_data(data)
                THEN Leave(r, jsonify_error(plain_error("No valid 'data' array provided")),
                           NoLocals, <<>>)
                        /\ UNCHANGED <<dirs, files>>
                ELSE IF ~mkdir_ok
                THEN Leave(r, jsonify_error(plain_error("[Errno 28] No space left on device")),
                           [NoLocals EXCEPT !.has_wd = TRUE,
                                            !.working_dir = working_dir,
                                            !.data = data.val],
                           <<>>)
                        /\ UNCHANGED <<dirs, files>>
                ELSE /\ dirs' = makedirs(dirs, working_dir)
                     /\ loc' = [loc EXCEPT ![r] =
                                   [NoLocals EXCEPT !.has_wd = TRUE,
                                                    !.working_dir = working_dir,
                                                    !.data = data.val,
                                                    !.md = make_engine(llm_config),
                                                    !.i = 1]]
                     /\ pc' = [pc EXCEPT ![r] = "loop"]
                     /\ trace' = [trace EXCEPT ![r] = <<Ev("makedirs", 0), Ev("engine", 0)>>]
                     /\ UNCHANGED <<response, files>>

\* lines 94-113 and 130: take the next item, check its fields, decode its
\* content and write the file; with no item left, return the results
LoopItem(r) ==
    /\ pc[r] = "loop"
    /\ UNCHANGED <<payload, served, dirs>>
    /\ LET l == loc[r] IN
       IF l.i > Len(l.data)
       THEN Leave(r, jsonify_results(l.results), l, <<>>) /\ UNCHANGED files
       ELSE LET item == l.data[l.i] IN
            IF entry_invalid(item)
            THEN Leave(r, jsonify_error(plain_error("Missing fileName or fileContent")),
                       l, <<>>)
                    /\ UNCHANGED files
            ELSE LET file_name == item.fileName
                     dec == b64decode(item.fileContent)
                     file_path == path_join(l.working_dir, file_name)
                     opened == open_wb(dirs, file_path)
                     l2 == [l EXCEPT !.file_name = file_name, !.file_path = file_path]
                 IN  IF ~dec.ok
                     THEN Leave(r, jsonify_error(decode_error(file_name, dec.err)),
                                [l EXCEPT !.file_name = file_name],
                                <<Ev("decode", l.i)>>)
                             /\ UNCHANGED files
                     ELSE IF opened # "ok"
                     THEN Leave(r, jsonify_error(plain_error(opened)), l2,
                                <<Ev("decode", l.i)>>)
                             /\ UNCHANGED files
                     ELSE /\ files' = write_file(dirs, files, file_path, dec.bytes)
                          /\ loc' = [loc EXCEPT ![r] = l2]
                          /\ pc' = [pc EXCEPT ![r] = "convert"]
                          /\ trace' = [trace EXCEPT ![r] =
                                          @ \o <<Ev("decode", l.i), Ev("write", l.i)>>]
                          /\ UNCHANGED response

\* lines 115-128: convert the file just written and append the result
Convert(r) ==
    /\ pc[r] = "convert"
    /\ UNCHANGED <<payload, served, dirs, files>>
    /\ LET l == loc[r]
           res == md_convert(dirs, files, l.file_path)
       IN  IF ~res.ok
           THEN Leave(r, jsonify_error(conversion_error(l.file_name, res.err)), l,
                      <<Ev("convert", l.i)>>)
           ELSE /\ loc' = [loc EXCEPT ![r] =
                              [l EXCEPT !.results =
                                            append_result(l.results, l.file_name,
                                                          res.text_content),
                                        !.i = l.i + 1]]
                /\ pc' = [pc EXCEPT ![r] = "loop"]
                /\ trace' = [trace EXCEPT ![r] = Append(@, Ev("convert", l.i))]
                /\ UNCHANGED response

\* lines 136-140: the finally clause, after which the handler has returned
Finally(r) ==
    /\ pc[r] = "finally"
    /\ pc' = [pc EXCEPT ![r] = "done"]
    /\ UNCHANGED <<payload, loc, response, served, trace>>
    /\ IF loc[r].has_wd /\ path_exists(dirs, files, loc[r].working_dir)
       THEN /\ dirs' = rmtree_dirs(dirs, loc[r].working_dir)
            /\ files' = rmtree_files(dirs, files, loc[r].working_dir)
       ELSE UNCHANGED <<dirs, files>>

\* the response has been sent; the thread waits for its next request
Release(r) ==
    /\ pc[r] = "done"
    /\ pc' = [pc EXCEPT ![r] = "idle"]
    /\ payload' = [payload EXCEPT ![r] = [kind |-> "none"]]
    /\ loc' = [loc EXCEPT ![r] = NoLocals]
    /\ response' = [response EXCEPT ![r] = NoResponse]
    /\ trace' = [trace EXCEPT ![r] = <<>>]
    /\ UNCHANGED <<dirs, files, served>>

\* the filesystem at start: the root and the base directory /tmp
Init ==
    /\ pc = [r \in Threads |-> "idle"]
    /\ payload = [r \in Threads |-> [kind |-> "none"]]
    /\ loc = [r \in Threads |-> NoLocals]
    /\ response = [r \in Threads |-> NoResponse]
    /\ dirs = {<<>>, <<"tmp">>}
    /\ files = [q \in {} |-> <<>>]
    /\ served = 0
    /\ trace = [r \in Threads |-> <<>>]

\* one request at a time, handled by thread 1
Next ==
    \/ \E body \in Bodies(Items), mkdir_ok \in BOOLEAN :
          \E parsed \in get_json(body) : Receive(1, body, parsed, mkdir_ok)
    \/ LoopItem(1)
    \/ Convert(1)
    \/ Finally(1)
    \/ Release(1)

Spec == Init /\ [][Next]_vars

\* several requests in flight, their steps interleaved in any order
NextShared ==
    \E r \in Threads :
        \/ \E body \in SharedBodies :
              \E parsed \in get_json(body) : Receive(r, body, parsed, TRUE)
        \/ LoopItem(r)
        \/ Convert(r)
        \/ Finally(r)
        \/ Release(r)

SpecShared == Init /\ [][NextShared]_vars

(* ===================== properties of the handler ====================== *)
\* the thread has left the try block: its response is fixed
Answered(r) == pc[r] \in {"finally", "done"}

\* the request of thread r carried a JSON object
IsObject(r) == payload[r].kind = "object"

\* the request carried a JSON object whose data is a non-empty list
HasData(r) ==
    /\ IsObject(r)
    /\ "data" \in DOMAIN payload[r].obj
    /\ payload[r].obj.data.type = "list"
    /\ payload[r].obj.data.val # <<>>

DataOf(r) == payload[r].obj.data.val

\* the item lacks fileName or fileContent, or holds an empty one
FieldMissing(item) ==
    \/ "fileName" \notin DOMAIN item
    \/ "fileContent" \notin DOMAIN item
    \/ item.fileName = <<>>
    \/ item.fileContent = <<>>

\* the engine raises on these bytes
EngineRejects(bytes) == \E k \in 1..Len(bytes) : bytes[k] = BadByte

\* a file of this name can be created in a fresh working directory
Writable(file_name) ==
    LET wd == <<SEP, "tmp", SEP, "w">> IN
    open_wb({<<>>, <<"tmp">>, <<"tmp", "w">>}, path_join(wd, file_name)) = "ok"

\* the item passes the field check, decodes, is written and converts
ItemGood(item) ==
    /\ ~FieldMissing(item)
    /\ b64decode(item.fileContent).ok
    /\ Writable(item.fileName)
    /\ ~EngineRejects(b64decode(item.fileContent).bytes)

\* the item fails the field check, the decoding or the conversion
ItemFails(item) ==
    \/ FieldMissing(item)
    \/ ~b64decode(item.fileContent).ok
    \/ EngineRejects(b64decode(item.fileContent).bytes)

HasEvent(r, op, i) == \E k \in 1..Len(trace[r]) : trace[r][k] = Ev(op, i)

CountEvent(r, op, i) == Cardinality({k \in 1..Len(trace[r]) : trace[r][k] = Ev(op, i)})

\* C1: once convert_files has returned, on whatever exit path, the working
\* directory created for the request does not exist; a request that left
\* before creating one has created none.
C1_WorkingDirRemoved ==
    \A r \in Threads :
        pc[r] = "done" =>
            /\ loc[r].has_wd => ~path_exists(dirs, files, loc[r].working_dir)
            /\ ~loc[r].has_wd => ~HasEvent(r, "makedirs", 0)
            /\ \A d \in dirs : d \in {<<>>, <<"tmp">>}

\* C1 witness: a request that created its working directory and then failed
\* in the conversion has returned
C1_Witness ==
    /\ pc[1] = "done"
    /\ HasEvent(1, "makedirs", 0)
    /\ response[1].status = 500
    /\ HasEvent(1, "convert", 1)

\* C2: when all N entries pass the field check, decode, are written and
\* convert, the response is 200 with N results; the i-th result carries the
\* i-th entry's fileName and the engine's text for that entry's own bytes.
C2_ResultsInOrder ==
    \A r \in Threads :
        (pc[r] = "done" /\ HasData(r) /\ loc[r].md.built
            /\ \A i \in 1..Len(DataOf(r)) : ItemGood(DataOf(r)[i]))
        => response[r] =
               [status |-> 200,
                results |-> [i \in 1..Len(DataOf(r)) |->
                    [fileName |-> DataOf(r)[i].fileName,
                     conversionResult |->
                         [markdown |-> b64decode(DataOf(r)[i].fileContent).bytes]]]]

\* C2 witness: a returned 200 whose two entries share one fileName and
\* differ in content
C2_Witness ==
    /\ pc[1] = "done"
    /\ response[1].status = 200
    /\ Len(response[1].results) = 2
    /\ response[1].results[1].fileName = response[1].results[2].fileName
    /\ response[1].results[1].conversionResult # response[1].results[2].conversionResult

\* C3: entries are processed in order and all-or-nothing: nothing is done
\* for an entry after the first failing one, the engine is invoked at most
\* once per entry, and a request with a failing entry answers 500 with an
\* error object and no results.
C3_AllOrNothing ==
    \A r \in Threads :
        (HasData(r) /\ loc[r].md.built) =>
            LET data == DataOf(r)
                failing == {i \in 1..Len(data) : ItemFails(data[i])}
            IN  /\ \A k \in 1..Len(trace[r]) : \A f \in failing : trace[r][k].i <= f
                /\ \A k \in 1..Len(trace[r]) : \A j \in 1..k : trace[r][j].i <= trace[r][k].i
                /\ \A i \in 1..Len(data) : CountEvent(r, "convert", i) <= 1
                /\ \A i \in 1..Len(data) : CountEvent(r, "decode", i) <= 1
                /\ \A i \in 1..Len(data) : CountEvent(r, "write", i) <= 1
                /\ (Answered(r) /\ failing # {}) =>
                       /\ response[r].status = 500
                       /\ DOMAIN response[r] = {"status", "error"}
                /\ (pc[r] \in {"loop", "convert"}) =>
                       \A f \in failing : f >= loc[r].i

\* C3 witness: the second entry failed after the first one had been
\* converted, and the request has returned
C3_Witness ==
    /\ pc[1] = "done"
    /\ HasData(1)
    /\ Len(DataOf(1)) = 2
    /\ ~ItemFails(DataOf(1)[1])
    /\ ItemFails(DataOf(1)[2])
    /\ HasEvent(1, "convert", 1)
    /\ response[1].status = 500

\* C4: when the engine raises for a file, the response is 500 and its error
\* names that file's fileName and the engine's error; it carries no results.
C4_ConversionFailureNamesFile ==
    \A r \in Threads :
        (Answered(r) /\ HasData(r) /\ trace[r] # <<>>
            /\ trace[r][Len(trace[r])].op = "convert"
            /\ EngineRejects(b64decode(
                   DataOf(r)[trace[r][Len(trace[r])].i].fileContent).bytes))
        => response[r] =
               [status |-> 500,
                error |-> [msg |-> "Conversion failed for file",
                           file |-> DataOf(r)[trace[r][Len(trace[r])].i].fileName,
                           err |-> "Could not convert"]]

\* C4 witness: the engine raised for the second file after converting the
\* first
C4_Witness ==
    /\ pc[1] = "done"
    /\ HasEvent(1, "convert", 1)
    /\ HasEvent(1, "convert", 2)
    /\ response[1].status = 500

\* RFC 4648 base64: length a multiple of four, alphabet characters only,
\* with at most two "=" and only at the end
IsStandardBase64(s) ==
    /\ Len(s) % 4 = 0
    /\ \A k \in 1..Len(s) :
          \/ table_a2b_base64(s[k]) < 64
          \/ /\ s[k] = BASE64_PAD
             /\ k >= Len(s) - 1
             /\ \A j \in k..Len(s) : s[j] = BASE64_PAD

\* C5: a request in which a file's fileContent is not valid standard base64
\* (the entries before it being good) answers 500 with an error naming that
\* file and without results.
C5_InvalidBase64Rejected ==
    \A r \in Threads :
        (pc[r] = "done" /\ HasData(r) /\ loc[r].md.built) =>
            \A i \in 1..Len(DataOf(r)) :
                (/\ ~FieldMissing(DataOf(r)[i])
                 /\ ~IsStandardBase64(DataOf(r)[i].fileContent)
                 /\ \A j \in 1..(i - 1) : ItemGood(DataOf(r)[j]))
                => /\ response[r].status = 500
                   /\ DOMAIN response[r] = {"status", "error"}
                   /\ "file" \in DOMAIN response[r].error
                   /\ response[r].error.file = DataOf(r)[i].fileName

\* C6: a JSON object whose data is missing, not a list or an empty list is
\* answered 500 "No valid 'data' array provided", and no working directory
\* was created nor any engine constructed for it.
C6_InvalidDataRejectedEarly ==
    \A r \in Threads :
        (Answered(r) /\ IsObject(r) /\ ~HasData(r)) =>
            /\ response[r] = [status |-> 500,
                              error |-> [msg |-> "No valid 'data' array provided"]]
            /\ trace[r] = <<>>
            /\ ~loc[r].has_wd
            /\ ~loc[r].md.built
            /\ \A d \in dirs : d \in {<<>>, <<"tmp">>}

\* C6 witness: a request whose data is the empty list has returned
C6_Witness ==
    /\ pc[1] = "done"
    /\ IsObject(1)
    /\ "data" \in DOMAIN payload[1].obj
    /\ payload[1].obj.data = [type |-> "list", val |-> <<>>]
    /\ response[1].status = 500

\* C7: a request whose JSON body is absent or does not parse is answered
\* 500 with the error "No JSON payload provided".
C7_NoJsonMessage ==
    \A r \in Threads :
        (Answered(r) /\ payload[r].kind \in {"absent", "unparsable"}) =>
            response[r] = [status |-> 500,
                           error |-> [msg |-> "No JSON payload provided"]]

\* the engine arguments the request's llmConfig calls for
ExpectedEngineArgs(obj) ==
    IF /\ "llmConfig" \in DOMAIN obj
       /\ "openaiApiKey" \in DOMAIN obj.llmConfig
       /\ "llmModel" \in DOMAIN obj.llmConfig
    THEN [llm_client |->
              [client |->
                  IF "openaiBaseUrl" \in DOMAIN obj.llmConfig
                  THEN [api_key |-> obj.llmConfig.openaiApiKey,
                        base_url |-> obj.llmConfig.openaiBaseUrl]
                  ELSE [api_key |-> obj.llmConfig.openaiApiKey]],
          llm_model |-> obj.llmConfig.llmModel]
    ELSE [x \in {} |-> "none"]

\* C8: the engine is constructed with an LLM client (API key, and base URL
\* only if given) and model exactly when llmConfig holds both openaiApiKey
\* and llmModel, else without arguments; it is constructed before any file
\* is processed and stays the same for the whole request.
C8_EngineMode ==
    \A r \in Threads :
        /\ loc[r].md.built => loc[r].md.kwargs = ExpectedEngineArgs(payload[r].obj)
        /\ (\E k \in 1..Len(trace[r]) : trace[r][k].i >= 1) =>
               /\ loc[r].md.built
               /\ trace[r][2] = Ev("engine", 0)

\* C8 witness: a file has been converted by an engine bound to an LLM
\* client that has no base URL override
C8_Witness ==
    /\ loc[1].md.built
    /\ "llm_client" \in DOMAIN loc[1].md.kwargs
    /\ "base_url" \notin DOMAIN loc[1].md.kwargs.llm_client.client
    /\ HasEvent(1, "convert", 1)

\* the response of a request handled with no other request in flight
RECURSIVE AloneResponse(_, _, _)
AloneResponse(data, i, results) ==
    IF i > Len(data) THEN [status |-> 200, results |-> results]
    ELSE IF FieldMissing(data[i])
    THEN [status |-> 500, error |-> [msg |-> "Missing fileName or fileContent"]]
    ELSE LET dec == b64decode(data[i].fileContent) IN
         IF ~dec.ok
         THEN [status |-> 500,
               error |-> [msg |-> "Failed to decode base64 for",
                          file |-> data[i].fileName, err |-> dec.err]]
         ELSE IF ~Writable(data[i].fileName)
         THEN [status |-> 500, error |-> [msg |-> "[Errno 2] No such file or directory"]]
         ELSE IF EngineRejects(dec.bytes)
         THEN [status |-> 500,
               error |-> [msg |-> "Conversion failed for file",
                          file |-> data[i].fileName, err |-> "Could not convert"]]
         ELSE AloneResponse(data, i + 1,
                  Append(results, [fileName |-> data[i].fileName,
                                   conversionResult |-> [markdown |-> dec.bytes]]))

\* the working directories of the requests in flight
LiveDir(r) == Components(loc[r].working_dir)

\* C9: with requests interleaved in any order and working directories of
\* distinct names, every file under a request's working directory was
\* written by that request, and every response equals the response the
\* request gets when handled alone.
C9_NoInterference ==
    \A r \in Threads :
        /\ (pc[r] \in {"loop", "convert", "finally"} /\ loc[r].md.built) =>
               \A q \in DOMAIN files :
                   IsPrefix(LiveDir(r), q) =>
                       \E i \in 1..Len(loc[r].data) :
                           /\ HasEvent(r, "write", i)
                           /\ q = Resolve(dirs \cup {LiveDir(r)},
                                      path_join(loc[r].working_dir,
                                                loc[r].data[i].fileName)).at
                           /\ files[q] = b64decode(loc[r].data[i].fileContent).bytes
        /\ (pc[r] = "done" /\ HasData(r) /\ loc[r].md.built) =>
               response[r] = AloneResponse(DataOf(r), 1, <<>>)

\* C10: whatever the fileName, the file is written inside the request's
\* working directory, and once the handler has returned no file written by
\* a request remains.
C10_WrittenInsideWorkingDir ==
    \A r \in Threads :
        /\ pc[r] = "convert" =>
               IsPrefix(LiveDir(r), Resolve(dirs, loc[r].file_path).at)
        /\ pc[r] = "done" => DOMAIN files = {}

====
